---- MODULE Spec2Model ----
(***************************************************************************)
(* Order-status endpoint of the storefront proxy: the signed-request       *)
(* check (verifyProxySignature), the order lookup (shopifyGraphQL) and the *)
(* stage decision (computeStage and the tracking override), composed by    *)
(* handler.  The repository holds two variants of the handler:             *)
(*   "A"  src/unnamed/part_000        (JSON or HTML answer)                *)
(*   "B"  src/api/order-status.js     (HTML timeline answer)               *)
(* A deployment runs one of them; variant is fixed in Init.                *)
(*                                                                         *)
(* Strings the code inspects (order, email, fulfillment status) are        *)
(* sequences of one-character strings.  Instants are milliseconds.         *)
(* The HMAC-SHA256 hex digest is an uninterpreted term over (key, message) *)
(* that keeps the two facts the code depends on: its length in bytes and   *)
(* its value.                                                              *)
(***************************************************************************)
EXTENDS Integers, Sequences, FiniteSets, TLC

VARIABLES variant, env, order, now, ticks, pc, req, lookup, verifyRuns, res, prevStage

vars == <<variant, env, order, now, ticks, pc, req, lookup, verifyRuns, res, prevStage>>

\* ----------------------------------------------------------------- bounds
\* number of times the clock may advance in one behaviour
MaxTicks == 4

\* ------------------------------------------------------ program constants
\* 1000 * 60 * 60 * 24
MsPerDay == 86400000
\* bytes of a SHA-256 digest rendered as hex
DigestLen == 64
\* computeStage thresholds
PackingFromDay == 2
ShippedFromDay == 4
\* fulfillments(first: N) in the GraphQL query of each variant
FulfillmentsFirstA == 10
FulfillmentsFirstB == 5

\* undefined / null / a field the response does not carry
NoVal == "<none>"

\* ---------------------------------------------------------------- strings
RECURSIVE trimStart(_)
trimStart(s) == IF s # <<>> /\ Head(s) = " " THEN trimStart(Tail(s)) ELSE s

RECURSIVE trimEnd(_)
trimEnd(s) == IF s # <<>> /\ s[Len(s)] = " " THEN trimEnd(SubSeq(s, 1, Len(s) - 1)) ELSE s

\* String.prototype.trim
trim(s) == trimEnd(trimStart(s))

UpperOf == [c \in {"f", "u", "l", "i", "e", "d", "n", "a", "b"} |->
              CASE c = "f" -> "F" [] c = "u" -> "U" [] c = "l" -> "L"
                [] c = "i" -> "I" [] c = "e" -> "E" [] c = "d" -> "D"
                [] c = "n" -> "N" [] c = "a" -> "A" [] c = "b" -> "B"]

UpperChar(c) == IF c \in DOMAIN UpperOf THEN UpperOf[c] ELSE c

LowerChar(c) == IF \E l \in DOMAIN UpperOf : UpperOf[l] = c
                THEN CHOOSE l \in DOMAIN UpperOf : UpperOf[l] = c
                ELSE c

\* String.prototype.toUpperCase / toLowerCase
toUpperCase(s) == [i \in 1..Len(s) |-> UpperChar(s[i])]

toLowerCase(s) == [i \in 1..Len(s) |-> LowerChar(s[i])]

\* String.prototype.startsWith, for a one-character prefix
startsWith(s, c) == s # <<>> /\ s[1] = c

FULFILLED == <<"F", "U", "L", "F", "I", "L", "L", "E", "D">>

UNFULFILLED == <<"U", "N">> \o FULFILLED

\* ------------------------------------------------------------- the stages
\* the fixed messages of the code, umlauts written as ae, ue
MsgProcessing == "Die Bestellung ist bei uns eingegangen und wird nun verarbeitet."

MsgPacking == "Die Bestellung wird von unserem Lager verpackt, die Sendungsnummer erhaeltst du in Kuerze per Mail."

MsgShipped == "Bestellung versendet."

computeStageOffByOne(days) ==
    IF days <= PackingFromDay THEN [stage |-> "processing", message |-> MsgProcessing]
    ELSE IF days <= ShippedFromDay THEN [stage |-> "packing", message |-> MsgPacking]
    ELSE [stage |-> "shipped", message |-> MsgShipped]

computeStageSwapped(days) ==
    IF days < PackingFromDay THEN [stage |-> "packing", message |-> MsgPacking]
    ELSE IF days < ShippedFromDay THEN [stage |-> "processing", message |-> MsgProcessing]
    ELSE [stage |-> "shipped", message |-> MsgShipped]

\* computeStage of variant A returns {stage, message}; variant B returns the
\* stage and getMessage maps it to the same texts.
computeStage(days) ==
    IF days < PackingFromDay THEN [stage |-> "processing", message |-> MsgProcessing]
    ELSE IF days < ShippedFromDay THEN [stage |-> "packing", message |-> MsgPacking]
    ELSE [stage |-> "shipped", message |-> MsgShipped]

getMessage(stage) ==
    IF stage = "processing" THEN MsgProcessing
    ELSE IF stage = "packing" THEN MsgPacking
    ELSE MsgShipped

\* Math.floor((now - createdAt) / (1000 * 60 * 60 * 24)); \div rounds down
DaysSince(t, createdAt) == (t - createdAt) \div MsPerDay

\* ------------------------------------------------------------ the request
\* A query parameter is present with a value, or absent (has = FALSE).
Absent(v) == [has |-> FALSE, v |-> v]

Present(v) == [has |-> TRUE, v |-> v]

\* the secret the trusted proxy signs with
ProxySecret == "shh"

\* crypto.createHmac("sha256", secret).update(message).digest("hex")
hmacHex(secret, message) == [len |-> DigestLen, key |-> secret, msg |-> message]

\* a value too short to be a digest, and the empty string
ShortSig == [len |-> 3, key |-> "abc", msg |-> <<>>]

EmptySig == [len |-> 0, key |-> "", msg |-> <<>>]

\* Object.keys(params).sort() over the keys left once signature and hmac are
\* deleted: "email" sorts before "order"
SortedKeys == <<"email", "order">>

\* .map((k) => `${k}=${params[k]}`).join("")
RECURSIVE joinPairs(_, _)
joinPairs(r, keys) ==
    IF keys = <<>> THEN <<>>
    ELSE (IF r[Head(keys)].has
          THEN <<[k |-> Head(keys), v |-> r[Head(keys)].v]>>
          ELSE <<>>) \o joinPairs(r, Tail(keys))

canonicalMessage(r) == joinPairs(r, SortedKeys)

OrderVals == { <<" ">>, <<"1">>, <<"#", "1">>, <<" ", "1", " ">> }

EmailVals == { <<" ">>, <<" ", "A", "b">> }

OrderParams == {Absent(<<>>)} \cup {Present(v) : v \in OrderVals}

EmailParams == {Absent(<<>>)} \cup {Present(v) : v \in EmailVals}

\* what a caller can put in signature: nothing, the empty string, the proxy's
\* digest of these parameters, a digest made with another key, a short value
SignatureParams(m) ==
    { Absent(EmptySig), Present(EmptySig), Present(hmacHex(ProxySecret, m)),
      Present(hmacHex("guess", m)), Present(ShortSig) }

\* hmac is the alias the proxy sometimes sends instead of signature
HmacParams(m, sig) ==
    IF sig.has /\ sig.v.len > 0
    THEN { Absent(EmptySig) }
    ELSE { Absent(EmptySig), Present(hmacHex(ProxySecret, m)), Present(ShortSig) }

BaseParams == { [order |-> o, email |-> e] : o \in OrderParams, e \in EmailParams }

Requests ==
    UNION { UNION { { [order |-> b.order, email |-> b.email, signature |-> sg, hmac |-> hm]
                      : hm \in HmacParams(canonicalMessage(b), sg) }
                    : sg \in SignatureParams(canonicalMessage(b)) }
            : b \in BaseParams }

NoRequest == [order |-> Absent(<<>>), email |-> Absent(<<>>),
              signature |-> Absent(EmptySig), hmac |-> Absent(EmptySig)]

\* ------------------------------------------------- verifyProxySignature
\* a string is truthy when it is present and not empty
Truthy(p) == p.has /\ p.v.len > 0

\* params.signature || params.hmac
providedOf(r) == IF Truthy(r.signature) THEN r.signature ELSE r.hmac

ReasonMissing == "Missing signature/hmac"

ReasonInvalid == "Invalid signature/hmac"

RangeErrorMsg == "Input buffers must have the same byte length"

\* crypto.timingSafeEqual(a, b): throws a RangeError when the byte lengths
\* differ, else compares the contents
timingSafeEqual(a, b) ==
    IF a.len # b.len THEN [threw |-> TRUE, eq |-> FALSE]
    ELSE [threw |-> FALSE, eq |-> (a = b)]

\* The result {ok, reason}, or the exception thrown.  Variant B returns no
\* reason.
verifyProxySignature(r, secret) ==
    LET provided == providedOf(r)
        digest == hmacHex(secret, canonicalMessage(r))
        cmp == timingSafeEqual(digest, provided.v)
    IN  IF ~Truthy(provided)
        THEN [ok |-> FALSE, threw |-> FALSE,
              reason |-> IF variant = "A" THEN ReasonMissing ELSE NoVal]
        ELSE IF cmp.threw
        THEN [ok |-> FALSE, threw |-> TRUE, reason |-> NoVal]
        ELSE IF cmp.eq
        THEN [ok |-> TRUE, threw |-> FALSE, reason |-> NoVal]
        ELSE [ok |-> FALSE, threw |-> FALSE,
              reason |-> IF variant = "A" THEN ReasonInvalid ELSE NoVal]

\* ------------------------------------------------------------ the upstream
\* One order of the shop, as the commerce platform holds it.
Tracking(number, url) == [number |-> number, url |-> url]

Fulfillment(trackingInfo) == [trackingInfo |-> trackingInfo]

StatusVals == { UNFULFILLED, FULFILLED, <<"f", "u", "l", "f", "i", "l", "l", "e", "d">> }

FulfillmentVals ==
    { <<>>,
      <<Fulfillment(<<>>)>>,
      <<Fulfillment(<<Tracking("", "")>>), Fulfillment(<<Tracking("1Z999", "")>>)>>,
      <<Fulfillment(<<Tracking("", "https://track/1")>>)>> }

\* creation instants: at the first instant of the behaviour, and 1 ms after it
\* (the platform's clock ahead of the server's)
CreatedAtVals == { 0, 1 }

Orders ==
    { [name |-> "#1", createdAt |-> c, displayFulfillmentStatus |-> st, fulfillments |-> fs]
      : c \in CreatedAtVals, st \in StatusVals, fs \in FulfillmentVals }

\* process.env: an unset variable is the empty string here
Envs ==
    { [shop |-> sh, token |-> tk, secret |-> sc]
      : sh \in {"", "deucces.myshopify.com"}, tk \in {"", "shpat_1"}, sc \in {"", ProxySecret} }

\* fulfillments(first: N)
FulfillmentsFirst == IF variant = "A" THEN FulfillmentsFirstA ELSE FulfillmentsFirstB

\* The node the GraphQL query selects from the order: variant A asks for
\* trackingInfo {number url}, variant B for trackingInfo {number} only.
shopifyNode(o) ==
    LET n == IF Len(o.fulfillments) < FulfillmentsFirst
             THEN Len(o.fulfillments) ELSE FulfillmentsFirst
        pick(t) == IF variant = "A" THEN t ELSE Tracking(t.number, "")
    IN  [name |-> o.name, createdAt |-> o.createdAt,
         displayFulfillmentStatus |-> o.displayFulfillmentStatus,
         fulfillments |->
            [i \in 1..n |->
                Fulfillment([j \in 1..Len(o.fulfillments[i].trackingInfo) |->
                                pick(o.fulfillments[i].trackingInfo[j])])]]

\* messages the lookup raises with: the first reported error, or the generic one
LookupErrors == { "Throttled", "Shopify error (502)" }

\* ------------------------------------------------------------ the handler
\* (node.fulfillments || []).some(f => (f.trackingInfo || []).some(t => t?.number || t?.url))
\* in variant A; variant B tests t?.number only.
hasTracking(node) ==
    \E i \in 1..Len(node.fulfillments) :
        \E j \in 1..Len(node.fulfillments[i].trackingInfo) :
            LET t == node.fulfillments[i].trackingInfo[j]
            IN  IF variant = "A" THEN t.number # "" \/ t.url # "" ELSE t.number # ""

\* String(status).toUpperCase() === "FULFILLED" in variant A,
\* status === "FULFILLED" in variant B
isFulfilled(node) ==
    IF variant = "A"
    THEN toUpperCase(node.displayFulfillmentStatus) = FULFILLED
    ELSE node.displayFulfillmentStatus = FULFILLED

\* the stage and message of a found order at instant t
stageOf(node, t) ==
    IF hasTracking(node) \/ isFulfilled(node)
    THEN [stage |-> "shipped", message |-> MsgShipped]
    ELSE computeStage(DaysSince(t, node.createdAt))

SecretConfiguredAlways == TRUE

\* if (secret)
SecretConfigured == env.secret # ""

\* if (!shop || !token)
ConfigMissing == env.shop = "" \/ env.token = ""

\* (url.searchParams.get(name) || "").trim()
getTrimmed(p) == trim(IF p.has THEN p.v ELSE <<>>)

orderParamOf(r) == getTrimmed(r.order)

\* variant A lowercases the email, variant B does not
emailParamOf(r) ==
    IF variant = "A" THEN toLowerCase(getTrimmed(r.email)) ELSE getTrimmed(r.email)

\* `(name:${normalized} OR name:${orderParam})`, then ` AND email:${emailParam}`
queryStringOf(r) ==
    LET orderParam == orderParamOf(r)
        emailParam == emailParamOf(r)
        normalized == IF startsWith(orderParam, "#") THEN orderParam ELSE <<"#">> \o orderParam
    IN  <<"(name:">> \o normalized \o <<" OR name:">> \o orderParam \o <<")">>
        \o (IF emailParam # <<>> THEN <<" AND email:">> \o emailParam ELSE <<>>)

\* res.status(s).json(body) / .send(html): the fields a body can carry
Response(status, error) ==
    [status |-> status, error |-> error, reason |-> NoVal, hint |-> NoVal,
     message |-> NoVal, orderName |-> NoVal, createdAt |-> NoVal,
     daysSince |-> NoVal, stage |-> NoVal]

\* the lookup of the current request: calls made, the search string passed,
\* and how the collaborator answered
NoLookup == [calls |-> 0, q |-> <<>>, outcome |-> "none", found |-> FALSE, err |-> NoVal]

\* the catch block
CatchResponse(msg) == [Response(500, "Server error") EXCEPT !.message = msg]

Init ==
    /\ variant \in {"A", "B"}
    /\ env \in Envs
    /\ order \in Orders
    /\ now = 0
    /\ ticks = 0
    /\ pc = "idle"
    /\ req = NoRequest
    /\ lookup = NoLookup
    /\ verifyRuns = 0
    /\ res = <<>>
    /\ prevStage = NoVal

\* The handler from its entry to its first return or to the await of the
\* lookup.
Receive(r) ==
    /\ pc = "idle"
    /\ req' = r
    /\ LET runVerify == ~ConfigMissing /\ SecretConfigured
           check == verifyProxySignature(r, env.secret)
       IN  /\ verifyRuns' = IF runVerify THEN verifyRuns + 1 ELSE verifyRuns
           /\ IF ConfigMissing
              THEN /\ res' = Append(res, Response(500,
                                IF variant = "A"
                                THEN "Missing SHOPIFY_SHOP / SHOPIFY_ACCESS_TOKEN env"
                                ELSE "Missing SHOPIFY_SHOP / SHOPIFY_ACCESS_TOKEN"))
                   /\ pc' = "done"
                   /\ UNCHANGED lookup
              ELSE IF runVerify /\ check.threw
              THEN /\ res' = Append(res, CatchResponse(RangeErrorMsg))
                   /\ pc' = "done"
                   /\ UNCHANGED lookup
              ELSE IF runVerify /\ ~check.ok
              THEN /\ res' = Append(res,
                                IF variant = "A"
                                THEN [Response(401, "Unauthorized proxy request")
                                        EXCEPT !.reason = check.reason]
                                ELSE Response(401, "Invalid proxy signature"))
                   /\ pc' = "done"
                   /\ UNCHANGED lookup
              ELSE IF orderParamOf(r) = <<>>
              THEN /\ res' = Append(res,
                                IF variant = "A"
                                THEN [Response(400, "Missing order")
                                        EXCEPT !.hint = "Nutze ?order=1043&email=kunde@mail.de"]
                                ELSE Response(400, "Missing order parameter"))
                   /\ pc' = "done"
                   /\ UNCHANGED lookup
              ELSE /\ lookup' = [calls |-> lookup.calls + 1, q |-> queryStringOf(r),
                                 outcome |-> "pending", found |-> FALSE, err |-> NoVal]
                   /\ pc' = "awaiting"
                   /\ UNCHANGED res
    /\ UNCHANGED <<variant, env, order, now, ticks, prevStage>>

\* shopifyGraphQL resolves: data.orders.edges[0].node is the order or nothing.
LookupResolve(found) ==
    /\ pc = "awaiting"
    /\ lookup' = [lookup EXCEPT !.outcome = "resolved", !.found = found]
    /\ pc' = "done"
    /\ IF ~found
       THEN res' = Append(res,
                      IF variant = "A"
                      THEN [Response(404, "Order not found")
                              EXCEPT !.hint = "Pruefe order und (idealerweise) email Parameter"]
                      ELSE Response(404, "Order not found"))
       ELSE LET node == shopifyNode(order)
                daysSince == DaysSince(now, node.createdAt)
                stageObj == stageOf(node, now)
            IN  res' = Append(res,
                          [Response(200, NoVal) EXCEPT
                              !.orderName = node.name,
                              !.createdAt = IF variant = "A" THEN node.createdAt ELSE NoVal,
                              !.daysSince = daysSince,
                              !.stage = stageObj.stage,
                              !.message = IF variant = "A" THEN stageObj.message
                                          ELSE getMessage(stageObj.stage)])
    /\ UNCHANGED <<variant, env, order, now, ticks, req, verifyRuns, prevStage>>

LookupRejectRetry(msg) ==
    /\ pc = "awaiting"
    /\ lookup.calls < 3
    /\ lookup' = [lookup EXCEPT !.calls = lookup.calls + 1, !.err = msg]
    /\ UNCHANGED <<variant, env, order, now, ticks, pc, req, verifyRuns, res, prevStage>>

\* shopifyGraphQL throws (non-2xx answer or an errors list): the catch block
\* answers 500 with the error's message.
LookupReject(msg) ==
    /\ pc = "awaiting"
    /\ lookup' = [lookup EXCEPT !.outcome = "raised", !.err = msg]
    /\ pc' = "done"
    /\ res' = Append(res, CatchResponse(msg))
    /\ UNCHANGED <<variant, env, order, now, ticks, req, verifyRuns, prevStage>>

\* The handler's promise settles; the next request starts from a fresh
\* invocation.  prevStage remembers the stage last shown for the order.
Return ==
    /\ pc = "done"
    /\ pc' = "idle"
    /\ prevStage' = IF res[Len(res)].status = 200 THEN res[Len(res)].stage ELSE prevStage
    /\ req' = NoRequest
    /\ lookup' = NoLookup
    /\ verifyRuns' = 0
    /\ res' = <<>>
    /\ UNCHANGED <<variant, env, order, now, ticks>>

\* how far the clock moves in one step: 1 ms, or 1 ms short of two days
TickSteps == { 1, 2 * MsPerDay - 1 }

\* new Date() is read after the await: time passes between requests and
\* while the lookup is pending.
Tick(d) ==
    /\ pc \in {"idle", "awaiting"}
    /\ ticks < MaxTicks
    /\ ticks' = ticks + 1
    /\ now' = now + d
    /\ UNCHANGED <<variant, env, order, pc, req, lookup, verifyRuns, res, prevStage>>

Next ==
    \/ \E r \in Requests : Receive(r)
    \/ \E found \in BOOLEAN : LookupResolve(found)
    \/ \E msg \in LookupErrors : LookupReject(msg)
    \/ Return
    \/ \E d \in TickSteps : Tick(d)

Spec == Init /\ [][Next]_vars

\* ------------------------------------------------------------- the claims
\* the answer of the request that has just ended
Answer == res[Len(res)]

Ended == pc = "done" /\ res # <<>>

ConfigPresent == env.shop # "" /\ env.token # ""

SecretSet == env.secret # ""

\* the value verification reads, and the digest it should carry
ProvidedValue == IF req.signature.has /\ req.signature.v.len > 0 THEN req.signature ELSE req.hmac

ProvidedMissing == ~ProvidedValue.has \/ ProvidedValue.v.len = 0

ExpectedDigest == [len |-> DigestLen, key |-> env.secret, msg |-> canonicalMessage(req)]

VerificationFails == ProvidedMissing \/ ProvidedValue.v # ExpectedDigest

AuthPasses == ~SecretSet \/ ~VerificationFails

TrimmedOrder == trim(IF req.order.has THEN req.order.v ELSE <<>>)

TrimmedEmail == trim(IF req.email.has THEN req.email.v ELSE <<>>)

\* C1: with a secret configured, a request whose signature verification fails
\* (no signature and no hmac, or a value other than the digest) is answered
\* 401 and the lookup is never called for it.
C1_Unauthorized ==
    (Ended /\ ConfigPresent /\ SecretSet /\ VerificationFails)
        => (Answer.status = 401 /\ lookup.calls = 0)

\* C2: a provided signature that differs from the digest, whatever its
\* length, is answered 401 with reason "invalid signature", never 500 or 200.
C2_InvalidSignature ==
    (Ended /\ ConfigPresent /\ SecretSet /\ ~ProvidedMissing /\ ProvidedValue.v # ExpectedDigest)
        => (/\ Answer.status = 401
            /\ Answer.status \notin {500, 200}
            /\ (variant = "A" => Answer.reason = ReasonInvalid))

\* fulfillment evidence of the order as the platform holds it
OrderFulfilled == toUpperCase(order.displayFulfillmentStatus) = FULFILLED

OrderHasTracking ==
    \E i \in 1..Len(order.fulfillments) :
        \E j \in 1..Len(order.fulfillments[i].trackingInfo) :
            \/ order.fulfillments[i].trackingInfo[j].number # ""
            \/ order.fulfillments[i].trackingInfo[j].url # ""

\* C3: a found order whose status is FULFILLED in any letter case, or that has
\* a tracking number or a tracking URL, is shown as shipped with the shipped
\* message, at every age.
C3_Override ==
    (Ended /\ Answer.status = 200 /\ (OrderFulfilled \/ OrderHasTracking))
        => (Answer.stage = "shipped" /\ Answer.message = MsgShipped)

\* C4: a found order without fulfilled status and without tracking is
\* processing below 2 days, packing from 2 to below 4, shipped from 4 on, each
\* with the stage's fixed message.
C4_AgeRule ==
    (Ended /\ Answer.status = 200 /\ ~OrderFulfilled /\ ~OrderHasTracking)
        => (/\ Answer.daysSince < 2
                => (Answer.stage = "processing" /\ Answer.message = MsgProcessing)
            /\ (2 <= Answer.daysSince /\ Answer.daysSince < 4)
                => (Answer.stage = "packing" /\ Answer.message = MsgPacking)
            /\ Answer.daysSince >= 4
                => (Answer.stage = "shipped" /\ Answer.message = MsgShipped))

C4_Witness ==
    /\ Ended /\ Answer.status = 200 /\ ~OrderFulfilled /\ ~OrderHasTracking
    /\ Answer.daysSince = 3 /\ Answer.stage = "packing"

NoSignatureSent == ~req.signature.has /\ ~req.hmac.has

\* C5, as stated: without a secret the authenticator never runs, nothing is
\* answered 401, and a request with a non-empty order parameter and no
\* signature or hmac reaches the lookup.
C5_NoSecret ==
    (pc # "idle" /\ ~SecretSet)
        => (/\ verifyRuns = 0
            /\ (Ended => Answer.status # 401)
            /\ (req.order.has /\ req.order.v # <<>> /\ NoSignatureSent) => lookup.calls = 1)

\* C5, amended: without a secret the authenticator never runs and nothing is
\* answered 401; with shop domain and access token configured, a request whose
\* order parameter is non-empty after trimming and that carries no signature
\* or hmac reaches the lookup.
C5_NoSecretAmended ==
    (pc # "idle" /\ ~SecretSet)
        => (/\ verifyRuns = 0
            /\ (Ended => Answer.status # 401)
            /\ (ConfigPresent /\ TrimmedOrder # <<>> /\ NoSignatureSent) => lookup.calls = 1)

C5_Witness ==
    /\ pc = "awaiting" /\ ~SecretSet /\ ConfigPresent /\ NoSignatureSent
    /\ TrimmedOrder # <<>> /\ lookup.calls = 1 /\ verifyRuns = 0

\* C6: the lookup is called at most once per request, exactly once when
\* configuration is present, authentication passes and the trimmed order is
\* non-empty; when that call raises, the request ends with 500 carrying the
\* collaborator's message and the lookup is not called again.
C6_LookupOnce ==
    /\ lookup.calls <= 1
    /\ (pc # "idle" /\ ConfigPresent /\ AuthPasses /\ TrimmedOrder # <<>>) => lookup.calls = 1
    /\ lookup.outcome = "raised"
        => (/\ pc = "done"
            /\ Len(res) = 1
            /\ Answer.status = 500
            /\ Answer.message = lookup.err
            /\ lookup.calls = 1)

C6_Witness ==
    /\ Ended /\ lookup.outcome = "raised" /\ lookup.err = "Throttled"
    /\ Answer.status = 500 /\ lookup.calls = 1

\* the status the ordered checks of C7 give
ExpectedStatus ==
    IF ~ConfigPresent THEN 500
    ELSE IF SecretSet /\ VerificationFails THEN 401
    ELSE IF TrimmedOrder = <<>> THEN 400
    ELSE IF lookup.outcome = "raised" THEN 500
    ELSE IF ~lookup.found THEN 404
    ELSE 200

\* C7: a request ends with exactly one response, whose status is that of the
\* first failing check: 500 missing configuration, 401 failed verification,
\* 400 empty order, 500 lookup raised, 404 no order, else 200; the first three
\* are answered before any lookup.
C7_StatusOrder ==
    pc = "done"
        => (/\ Len(res) = 1
            /\ Answer.status = ExpectedStatus
            /\ (~ConfigPresent \/ (SecretSet /\ VerificationFails) \/ TrimmedOrder = <<>>)
                => lookup.calls = 0)

\* elapsed days with the fraction dropped
TruncDays(ms) == IF ms >= 0 THEN ms \div MsPerDay ELSE 0 - ((0 - ms) \div MsPerDay)

\* C8: daysSince of a success response is a non-negative integer, the elapsed
\* time from the order's creation to now in days, truncated, also when the
\* creation instant is later than now.
C8_DaysSince ==
    (Ended /\ Answer.status = 200)
        => (/\ Answer.daysSince >= 0
            /\ Answer.daysSince = TruncDays(now - order.createdAt))

\* the search string of C9 for identifier X and email Y
ClaimedQuery ==
    <<"(name:", "#">> \o TrimmedOrder \o <<" OR name:">> \o TrimmedOrder \o <<")">>
    \o (IF TrimmedEmail # <<>> THEN <<" AND email:">> \o toLowerCase(TrimmedEmail) ELSE <<>>)

\* C9: the search string passed to the lookup is (name:#X OR name:X), followed
\* by " AND email:" and the trimmed, lowercased email when that is non-empty.
C9_SearchString == lookup.calls = 1 => lookup.q = ClaimedQuery

Rank(stage) == CASE stage = "processing" -> 1 [] stage = "packing" -> 2 [] stage = "shipped" -> 3

\* C10: for one order record, the stage shown never moves backward as time
\* advances, and once shipped was shown every later answer is shipped.
C10_Monotonic ==
    (Ended /\ Answer.status = 200 /\ prevStage # NoVal)
        => (/\ Rank(Answer.stage) >= Rank(prevStage)
            /\ prevStage = "shipped" => Answer.stage = "shipped")

C10_Witness ==
    /\ Ended /\ Answer.status = 200 /\ prevStage = "packing" /\ Answer.stage = "shipped"
    /\ ~OrderFulfilled /\ ~OrderHasTracking

====
